---- MODULE Spec2Model ----
(***************************************************************************)
(* Model of the STABL stability-selection estimator (stabl/stabl.py):      *)
(* the life cycle of one STABL object (construction, fit, refit, the read  *)
(* accessors get_support, get_feature_names_out and transform), the FDR    *)
(* controller _compute_FDRc and the resampler bootstrap.                   *)
(*                                                                         *)
(* Numbers.  A Python float is modelled by an exact fraction <<a, b>> with *)
(* b > 0.  A stability score is <<k, n_bootstraps>> (the mean of           *)
(* n_bootstraps booleans, k of them True).  All fractions used here are    *)
(* small and the proportions are powers of 1/2, so the floating-point      *)
(* computation of the program is exact on them.                            *)
(*                                                                         *)
(* Optional values.  Python's None is the empty tuple << >>; a value v     *)
(* that is present is <<v>>.  For X_artificial_ and n_features_in_, which  *)
(* the constructor does not create, << >> means "attribute not set".       *)
(***************************************************************************)
EXTENDS Integers, Sequences, FiniteSets, TLC

VARIABLES
    cfg,                            \* the constructor parameters (self.<param>)
    data,                           \* the (X, y) fit last read (after its validation)
    stability_scores_,              \* self.stability_scores_
    stability_scores_artificial_,   \* self.stability_scores_artificial_
    X_artificial_,                  \* self.X_artificial_
    FDRs_,                          \* self.FDRs_
    min_fdr_,                       \* self.min_fdr_
    fdr_min_threshold_,             \* self.fdr_min_threshold_
    n_features_in_,                 \* self.n_features_in_ (set by _validate_data)
    pc,                             \* position of the caller inside fit, "idle" outside
    idx,                            \* loop index of fit's grid loop (1-based)
    gen,                            \* random source of the current _bootstraps_generator
    tasks,                          \* per-resample tasks of the current grid point
    written_by,                     \* history: which call last wrote each attribute
    n_draws,                        \* history: random draws made by the current fit call
    n_est_fits,                     \* history: estimator fits made by the current fit call
    batches,                        \* history: resamples used per grid point, current fit
    result,                         \* outcome of the last call
    call,                           \* arguments (and frame) of a call that is followed in detail
    depth,                          \* nested bootstrap calls that are active
    sampled_indices                 \* bootstrap's local sampled_indices (innermost call)

attrs == <<stability_scores_, stability_scores_artificial_, X_artificial_,
           FDRs_, min_fdr_, fdr_min_threshold_, n_features_in_>>
locals == <<pc, idx, gen, tasks>>
hist == <<written_by, n_draws, n_est_fits, batches>>
boot == <<call, depth, sampled_indices>>
vars == <<cfg, data, attrs, locals, hist, result, boot>>

-----------------------------------------------------------------------------
(* Bounds of the model *)

NFeatures == 3      \* columns of the design matrix X
NSamples == 4       \* rows of X
NLambda == 2        \* len(lambda_grid)
NBoot == 2          \* n_bootstraps of a valid configuration
RecursionLimit == 3 \* nested bootstrap calls the interpreter allows (sys.getrecursionlimit)

-----------------------------------------------------------------------------
(* Optional values and fractions *)

None == << >>
Some(v) == <<v>>

Zero == <<0, 1>>
One == <<1, 1>>
Half == <<1, 2>>

RGt(x, y) == x[1] * y[2] > y[1] * x[2]
REq(x, y) == x[1] * y[2] = y[1] * x[2]
RLe(x, y) == ~RGt(x, y)

\* np.min of two values: min([x, y])
RMin2(x, y) == IF RGt(x, y) THEN y ELSE x

\* np.argmax / np.argmin over a non-empty sequence: first index of an extreme value
ArgMax(s) == CHOOSE i \in 1..Len(s) :
                /\ \A k \in 1..Len(s) : RLe(s[k], s[i])
                /\ \A k \in 1..(i - 1) : RGt(s[i], s[k])

ArgMinLast(s) == CHOOSE i \in 1..Len(s) :
                    /\ \A k \in 1..Len(s) : RLe(s[i], s[k])
                    /\ \A k \in (i + 1)..Len(s) : RGt(s[k], s[i])

ArgMin(s) == CHOOSE i \in 1..Len(s) :
                /\ \A k \in 1..Len(s) : RLe(s[i], s[k])
                /\ \A k \in 1..(i - 1) : RGt(s[k], s[i])

\* np.max(M, axis=1): one value per row
MaxOverGrid(M) == [j \in 1..Len(M) |-> M[j][ArgMax(M[j])]]

\* np.sum(v > t)
CountAboveOrEqual(v, t) == Cardinality({j \in 1..Len(v) : ~RGt(t, v[j])})

CountAbove(v, t) == Cardinality({j \in 1..Len(v) : RGt(v[j], t)})

-----------------------------------------------------------------------------
(* The FDR controller, STABL._compute_FDRc *)

\* one pass of the loop: num / denum for one threshold
FDPNonStrict(prop, max_scores, max_scores_artificial, thresh) ==
    LET S == CountAboveOrEqual(max_scores_artificial, thresh)
        R == CountAboveOrEqual(max_scores, thresh)
        denum == IF R > 1 THEN R ELSE 1
    IN  <<S * prop[2] + prop[1], prop[1] * denum>>

FDP(prop, max_scores, max_scores_artificial, thresh) ==
    LET S == CountAbove(max_scores_artificial, thresh)
        R == CountAbove(max_scores, thresh)
        denum == IF R > 1 THEN R ELSE 1
    IN  <<S * prop[2] + prop[1], prop[1] * denum>>

FDPs(prop, real, artificial, range) ==
    [i \in 1..Len(range) |->
        FDP(prop, MaxOverGrid(real), MaxOverGrid(artificial), range[i])]

\* the branch on min_fdr_ and the clipped argmin
FinalCutoffUnclipped(fdps, range) ==
    IF RGt(fdps[ArgMin(fdps)], One)
    THEN One
    ELSE range[ArgMin(fdps)]

FinalCutoff(fdps, range) ==
    IF RGt(fdps[ArgMin(fdps)], One)
    THEN One
    ELSE RMin2(range[ArgMin(fdps)], One)

-----------------------------------------------------------------------------
(* Configurations: the constructor parameters, STABL.__init__ *)

ArtNone == "None"

BaseConfig ==
    [ n_bootstraps          |-> NBoot,
      sample_fraction       |-> Half,
      threshold             |-> None,
      artificial_type       |-> "random_permutation",
      artificial_proportion |-> One,
      lambda_name_ok        |-> TRUE,
      replace               |-> FALSE,
      random_state          |-> None,
      fdr_threshold_range   |-> << <<1, 4>>, <<3, 4>> >> ]

ValidConfigs ==
    { BaseConfig,
      [BaseConfig EXCEPT !.artificial_type = "knockoff", !.artificial_proportion = Half,
                         !.sample_fraction = <<3, 2>>, !.replace = TRUE,
                         !.random_state = Some(1),
                         !.fdr_threshold_range = << <<5, 4>>, <<1, 2>> >>],
      [BaseConfig EXCEPT !.artificial_proportion = Half, !.random_state = Some(0)],
      [BaseConfig EXCEPT !.threshold = Some(Half)],
      [BaseConfig EXCEPT !.threshold = Some(Half), !.artificial_type = ArtNone] }

InvalidConfigs ==
    { [BaseConfig EXCEPT !.n_bootstraps = 0],
      [BaseConfig EXCEPT !.sample_fraction = Zero],
      [BaseConfig EXCEPT !.threshold = Some(<<3, 2>>)],
      [BaseConfig EXCEPT !.artificial_type = ArtNone],
      [BaseConfig EXCEPT !.artificial_proportion = <<3, 2>>],
      [BaseConfig EXCEPT !.lambda_name_ok = FALSE],
      [BaseConfig EXCEPT !.artificial_type = "bogus"],
      [BaseConfig EXCEPT !.sample_fraction = <<3, 2>>] }

Configs == ValidConfigs \cup InvalidConfigs

\* STABL._validate_input: TRUE when no ValueError is raised
ValidateInputWithoutSelectionRule(c) ==
    /\ c.n_bootstraps > 0
    /\ RGt(c.sample_fraction, Zero)
    /\ (c.threshold # None =>
            RGt(c.threshold[1], Zero) /\ RLe(c.threshold[1], One))
    /\ IF c.artificial_type # ArtNone
          /\ ~(RGt(c.artificial_proportion, Zero) /\ RLe(c.artificial_proportion, One))
       THEN FALSE
       ELSE c.lambda_name_ok

ValidateInput(c) ==
    /\ c.n_bootstraps > 0
    /\ RGt(c.sample_fraction, Zero)
    /\ (c.threshold # None =>
            RGt(c.threshold[1], Zero) /\ RLe(c.threshold[1], One))
    /\ ~(c.threshold = None /\ c.artificial_type = ArtNone)
    /\ IF c.artificial_type # ArtNone
          /\ ~(RGt(c.artificial_proportion, Zero) /\ RLe(c.artificial_proportion, One))
       THEN FALSE
       ELSE c.lambda_name_ok

\* n_subsamples = int(np.floor(self.sample_fraction * n_samples))
NSubsamples(c) == (c.sample_fraction[1] * NSamples) \div c.sample_fraction[2]

\* n_injected_noise = int(X.shape[1] * self.artificial_proportion)
NInjectedNoise(c) == (NFeatures * c.artificial_proportion[1]) \div c.artificial_proportion[2]

\* X.shape[1] of fit's local X once the synthetic block has been appended
XWidth(c) == IF c.artificial_type = ArtNone THEN NFeatures
             ELSE NFeatures + NInjectedNoise(c)

\* np.zeros((rows, n_lambdas))
Zeros(rows) == [j \in 1..rows |-> [i \in 1..NLambda |-> Zero]]

-----------------------------------------------------------------------------
(* Random sources and the external estimator *)

\* bootstrap, lines 46-49: the test that raises ValueError
BootstrapRejectsNothing(n_subsamples, n_samples, replace) == FALSE

BootstrapRejects(n_subsamples, n_samples, replace) ==
    n_subsamples > n_samples /\ ~replace

\* np.random.default_rng(random_state): a seeded source is identified by its
\* seed; with random_state=None the source is seeded from fresh OS entropy,
\* identified here by the place in fit that created it (0: the synthetic
\* feature generator, i: the bootstrap generator of grid point i).
DefaultRng(random_state, place) ==
    IF random_state = None
    THEN [src |-> <<"os", place>>, pos |-> 0]
    ELSE [src |-> <<"seed", random_state[1]>>, pos |-> 0]

\* the value a source yields is determined by the source and its position
NextDraw(rng) == <<rng.src, rng.pos>>
Advance(rng) == [rng EXCEPT !.pos = rng.pos + 1]

\* What knockpy's GaussianSampler(X).sample_knockoffs() may return for one X:
\* it is given no seed and draws from numpy's global random state, whatever
\* that state is when fit is called
GlobalSamples == {0, 1}

\* The data sets a caller may pass to fit.  The base estimator is an external
\* collaborator and a function of its inputs: on "signal" data it ranks the
\* real columns before the synthetic ones, on "noise" and "illposed" data the
\* synthetic columns before the real ones, and on "illposed" data its fit
\* raises for some resamples.
DataSets == {"signal", "noise", "illposed"}

\* lambda_grid: ascending values of the penalization parameter
LambdaGrid == [i \in 1..NLambda |-> i]

Rank(d, j, width) ==
    IF d[1] = "signal" THEN j
    ELSE IF j > NFeatures THEN j - NFeatures
    ELSE (width - NFeatures) + j

\* fit_bootstrapped_sample: the estimator fitted with lambda_value on the
\* rows `sample` of the matrix d = <<data, values of the synthetic block>>
\* keeps the best-ranked columns; how many depends on lambda_value, on the
\* resample and on the values of the matrix
FitBootstrappedSample(d, sample, lambda_value, width) ==
    [j \in 1..width |->
        Rank(d, j, width) <= lambda_value - 1 + ((sample[1][2] + sample[2]) % 2) + d[2]]

\* line 500, base_estimator.fit(X, y) raising (no convergence, singular data):
\* on "illposed" data, with the last value of the grid, on the first resample
\* of a random source
EstimatorRaises(d, sample, lambda_value) ==
    d[1] = "illposed" /\ lambda_value = NLambda /\ sample[2] = 0

\* np.vstack(selected_variables)[:, cols].mean(axis=0) written into column i
WithColumnEverywhere(M, i, masks, offset, n) ==
    [j \in 1..Len(M) |->
        [g \in 1..Len(M[j]) |->
            <<Cardinality({t \in 1..Len(masks) : masks[t][offset + j]}), n>>]]

WithColumn(M, i, masks, offset, n) ==
    [j \in 1..Len(M) |->
        [M[j] EXCEPT ![i] =
            <<Cardinality({t \in 1..Len(masks) : masks[t][offset + j]}), n>>]]

-----------------------------------------------------------------------------
(* The read accessor, STABL.get_support / _get_support_mask *)

\* attributes created by __init__ (they exist, holding None, before any fit)
InitAttributes == {"stability_scores_", "stability_scores_artificial_",
                   "FDRs_", "min_fdr_", "fdr_min_threshold_"}

\* hasattr(self, name)
HasAttr(name) ==
    \/ name \in InitAttributes
    \/ name = "X_artificial_" /\ X_artificial_ # None
    \/ name = "n_features_in_" /\ n_features_in_ # None

\* sklearn's check_is_fitted(self, name): passes when the attribute exists
CheckIsFitted(name) == HasAttr(name)

\* the cutoff _get_support_mask compares against (None when none is available)
SupportCutoffFdrFirst(new_threshold, threshold, fdr_min_threshold) ==
    IF new_threshold # None THEN new_threshold
    ELSE IF fdr_min_threshold # None THEN fdr_min_threshold
    ELSE threshold

SupportCutoff(new_threshold, threshold, fdr_min_threshold) ==
    LET nt == IF new_threshold = None THEN threshold ELSE new_threshold
    IN  IF nt = None THEN fdr_min_threshold ELSE nt

Outcome(op, kind, error, nt, mask) ==
    [op |-> op, kind |-> kind, error |-> error, nt |-> nt, mask |-> mask]

SupportMaskBelow(scores, cutoff) ==
    LET max_scores == MaxOverGrid(scores)
    IN  [j \in 1..Len(max_scores) |-> RGt(cutoff, max_scores[j])]

SupportMask(scores, cutoff) ==
    LET max_scores == MaxOverGrid(scores)
    IN  [j \in 1..Len(max_scores) |-> RGt(max_scores[j], cutoff)]

GetSupportOutcome(new_threshold) ==
    LET final_cutoff == SupportCutoff(new_threshold, cfg.threshold, fdr_min_threshold_)
    IN  IF ~CheckIsFitted("stability_scores_")
        THEN Outcome("get_support", "error", "NotFittedError", new_threshold, << >>)
        ELSE IF stability_scores_ = None      \* np.max(None, axis=1)
        THEN Outcome("get_support", "error", "AxisError", new_threshold, << >>)
        ELSE IF final_cutoff = None           \* max_scores > None
        THEN Outcome("get_support", "error", "TypeError", new_threshold, << >>)
        ELSE Outcome("get_support", "mask", "", new_threshold,
                     SupportMask(stability_scores_[1], final_cutoff[1]))

\* override thresholds a caller may pass (None: no override)
Overrides == {None, Some(Zero), Some(<<1, 4>>), Some(<<3, 4>>), Some(<<5, 4>>)}

\* a[mask] / X[:, mask]: the entries at the True positions, in their order
Take(a, mask) ==
    LET upto[k \in 0..Len(mask)] ==
            IF k = 0 THEN << >>
            ELSE IF mask[k] THEN Append(upto[k - 1], a[k]) ELSE upto[k - 1]
    IN  upto[Len(mask)]

\* the names sklearn generates for array input: "x0", ..., "x(n - 1)"
GeneratedNames(n) == [j \in 1..n |-> <<"x", j - 1>>]

\* the columns of a matrix handed to transform, named by their position
ColumnsOf(shape) == [j \in 1..shape[2] |-> j - 1]

\* get_feature_names_out(new_threshold=nt) on array input: sklearn's
\* _check_feature_names_in generates x0.. from n_features_in_ and raises
\* ValueError without it; the names are then indexed by the mask
FeatureNamesOutcomeUnmasked(new_threshold) ==
    LET got == GetSupportOutcome(new_threshold)
    IN  IF n_features_in_ = None
        THEN Outcome("get_feature_names_out", "error", "ValueError", new_threshold, << >>)
        ELSE IF got.kind = "error"
        THEN Outcome("get_feature_names_out", "error", got.error, new_threshold, << >>)
        ELSE Outcome("get_feature_names_out", "names", "", new_threshold, got.mask)
                @@ [names |-> GeneratedNames(n_features_in_[1])]

FeatureNamesOutcome(new_threshold) ==
    LET got == GetSupportOutcome(new_threshold)
    IN  IF n_features_in_ = None
        THEN Outcome("get_feature_names_out", "error", "ValueError", new_threshold, << >>)
        ELSE IF got.kind = "error"
        THEN Outcome("get_feature_names_out", "error", got.error, new_threshold, << >>)
        ELSE Outcome("get_feature_names_out", "names", "", new_threshold, got.mask)
                @@ [names |-> Take(GeneratedNames(n_features_in_[1]), got.mask)]

\* the overrides tried with get_feature_names_out and with transform
NamesOverrides == {None}
TransformOverrides == {None, Some(<<5, 4>>)}

\* the shapes (rows, columns) of the matrices a caller may pass to transform
TransformInputs == {<<1, NFeatures>>, <<NSamples, NFeatures>>, <<1, NFeatures + 1>>}

\* mask.any()
AnyTrue(mask) == \E j \in 1..Len(mask) : mask[j]

\* lines 871-880 of transform, acting on a matrix of the given shape
SelectColumnsStrict(shape, new_threshold, mask) ==
    IF Len(mask) # shape[2] \/ ~AnyTrue(mask)
    THEN Outcome("transform", "error", "ValueError", new_threshold, << >>)
    ELSE [op |-> "transform", kind |-> "matrix", error |-> "", nt |-> new_threshold,
          mask |-> mask, rows |-> shape[1],
          cols |-> Cardinality({j \in 1..Len(mask) : mask[j]}), warning |-> FALSE,
          columns |-> Take(ColumnsOf(shape), mask)]

SelectColumns(shape, new_threshold, mask) ==
    IF Len(mask) # shape[2]
    THEN Outcome("transform", "error", "ValueError", new_threshold, << >>)
    ELSE IF ~AnyTrue(mask)
    THEN [op |-> "transform", kind |-> "matrix", error |-> "", nt |-> new_threshold,
          mask |-> mask, rows |-> shape[1], cols |-> 0, warning |-> TRUE,
          columns |-> << >>]
    ELSE [op |-> "transform", kind |-> "matrix", error |-> "", nt |-> new_threshold,
          mask |-> mask, rows |-> shape[1],
          cols |-> Cardinality({j \in 1..Len(mask) : mask[j]}), warning |-> FALSE,
          columns |-> Take(ColumnsOf(shape), mask)]

\* transform(X, new_threshold=nt): _validate_data(X, reset=False) compares the
\* width of X with n_features_in_ when that attribute exists; the outcome is
\* recorded together with the shape of X
TransformOutcomeAnyWidth(shape, new_threshold) ==
    LET got == GetSupportOutcome(new_threshold)
        out == IF got.kind = "error"
               THEN Outcome("transform", "error", got.error, new_threshold, << >>)
               ELSE [op |-> "transform", kind |-> "matrix", error |-> "",
                     nt |-> new_threshold, mask |-> got.mask, rows |-> shape[1],
                     cols |-> Cardinality({j \in 1..Len(got.mask) : got.mask[j]}),
                     warning |-> FALSE, columns |-> Take(ColumnsOf(shape), got.mask)]
    IN  out @@ [x |-> shape]

TransformOutcome(shape, new_threshold) ==
    LET got == GetSupportOutcome(new_threshold)
        out == IF n_features_in_ # None /\ n_features_in_[1] # shape[2]
               THEN Outcome("transform", "error", "ValueError", new_threshold, << >>)
               ELSE IF got.kind = "error"
               THEN Outcome("transform", "error", got.error, new_threshold, << >>)
               ELSE SelectColumns(shape, new_threshold, got.mask)
    IN  out @@ [x |-> shape]

-----------------------------------------------------------------------------
(* The object after construction *)

AttrNames == InitAttributes \cup {"X_artificial_", "n_features_in_"}

Init ==
    /\ cfg \in Configs
    /\ data = "none"
    /\ stability_scores_ = None
    /\ stability_scores_artificial_ = None
    /\ X_artificial_ = None
    /\ FDRs_ = None
    /\ min_fdr_ = None
    /\ fdr_min_threshold_ = None
    /\ n_features_in_ = None
    /\ pc = "idle"
    /\ idx = 0
    /\ gen = None
    /\ tasks = << >>
    /\ written_by = [a \in AttrNames |-> "init"]
    /\ n_draws = 0
    /\ n_est_fits = 0
    /\ batches = << >>
    /\ result = Outcome("construct", "ok", "", None, << >>)
    /\ call = None
    /\ depth = 0
    /\ sampled_indices = << >>

-----------------------------------------------------------------------------
(* fit *)

\* the exception leaves fit: the object keeps what has been written so far
Raise(error) ==
    /\ pc' = "idle"
    /\ idx' = 0
    /\ gen' = None
    /\ tasks' = << >>
    /\ result' = Outcome("fit", "error", error, None, << >>)

\* fit is called, on a new object or after set_params on a used one;
\* line 705, self._validate_input()
FitValidate ==
    /\ pc = "idle"
    /\ \E c \in Configs :
          /\ stability_scores_ = None => c = cfg
          /\ cfg' = c
    /\ written_by' = [a \in AttrNames |->
                        IF written_by[a] = "fit" THEN "earlier fit" ELSE written_by[a]]
    /\ n_draws' = 0
    /\ n_est_fits' = 0
    /\ batches' = << >>
    /\ IF ValidateInput(cfg')
       THEN /\ data' \in DataSets
            /\ pc' = "init"
            /\ result' = Outcome("fit", "running", "", None, << >>)
            /\ UNCHANGED <<idx, gen, tasks>>
       ELSE /\ Raise("ValueError")
            /\ UNCHANGED data
    /\ UNCHANGED <<attrs, boot>>

\* lines 707-729: _validate_data, the zero matrices
FitInit ==
    /\ pc = "init"
    /\ n_features_in_' = Some(NFeatures)
    /\ stability_scores_' = Some(Zeros(NFeatures))
    /\ IF cfg.artificial_type # ArtNone
       THEN /\ stability_scores_artificial_' = Some(Zeros(NInjectedNoise(cfg)))
            /\ written_by' = [written_by EXCEPT !["n_features_in_"] = "fit",
                                                !["stability_scores_"] = "fit",
                                                !["stability_scores_artificial_"] = "fit"]
            /\ pc' = "artificial"
            /\ idx' = idx
       ELSE /\ UNCHANGED stability_scores_artificial_
            /\ written_by' = [written_by EXCEPT !["n_features_in_"] = "fit",
                                                !["stability_scores_"] = "fit"]
            /\ pc' = "loop"
            /\ idx' = 1
    /\ UNCHANGED <<boot, cfg, data, X_artificial_, FDRs_, min_fdr_, fdr_min_threshold_,
                   gen, tasks, n_draws, n_est_fits, batches, result>>

\* lines 937, 945 and 950: the types _make_artificial_features has a branch for
AnyArtificialType(artificial_type) == TRUE

KnownArtificialType(artificial_type) ==
    artificial_type \in {"random_permutation", "knockoff"}

\* fit's local X after lines 727-735: the data and, with synthetic features,
\* the block just generated
LocalX == <<data, IF cfg.artificial_type = ArtNone THEN 0 ELSE X_artificial_[1].sample>>

\* lines 730-735: self._make_artificial_features (lines 935-956); the values
\* of a knockoff block come from GaussianSampler (line 946), its columns and
\* the whole permutation block from rng (line 935)
FitMakeArtificial ==
    /\ pc = "artificial"
    /\ IF KnownArtificialType(cfg.artificial_type)
       THEN /\ \E g \in IF cfg.artificial_type = "knockoff" THEN GlobalSamples ELSE {0} :
                  X_artificial_' =
                      Some([kind |-> cfg.artificial_type,
                            data |-> data,
                            cols |-> NInjectedNoise(cfg),
                            rng  |-> DefaultRng(cfg.random_state, 0).src,
                            sample |-> g])
            /\ written_by' = [written_by EXCEPT !["X_artificial_"] = "fit"]
            /\ n_draws' = n_draws + 1
            /\ pc' = "loop"
            /\ idx' = 1
            /\ UNCHANGED <<gen, tasks, result>>
       ELSE /\ Raise("ValueError")
            /\ UNCHANGED <<X_artificial_, written_by, n_draws>>
    /\ UNCHANGED <<boot, cfg, data, stability_scores_, stability_scores_artificial_, FDRs_,
                   min_fdr_, fdr_min_threshold_, n_features_in_,
                   n_est_fits, batches>>

\* self.base_estimator as configured: an object with an identity, the value
\* of its regularization parameter (None: as constructed) and whether it
\* has been fitted
SelfBaseEstimator == [id |-> <<"self">>, lambda |-> None, fitted |-> FALSE]

\* sklearn.base.clone: a new unfitted object with the same parameters
CloneShares(estimator, id) == estimator

Clone(estimator, id) == [id |-> id, lambda |-> estimator.lambda, fitted |-> FALSE]

\* line 721: fit's local base_estimator
FitBaseEstimator == Clone(SelfBaseEstimator, <<"fit">>)

\* lines 499-500: set_params(**{lambda_name: lambda_value}) and fit on the
\* object that was passed in
SetParamsAndFit(estimator, lambda_value) ==
    [estimator EXCEPT !.lambda = Some(lambda_value), !.fitted = TRUE]

\* lines 748-770: the next item of the generator expression: next() on
\* _bootstraps_generator (line 88 on its first use, then bootstrap, lines
\* 44-61) and the dispatch of fit_bootstrapped_sample on that resample
TaskDispatch ==
    /\ pc = "loop"
    /\ Len(tasks) < cfg.n_bootstraps
    /\ LET rng == IF gen = None THEN DefaultRng(cfg.random_state, idx)
                  ELSE gen[1]
       IN  IF BootstrapRejects(NSubsamples(cfg), NSamples, cfg.replace)
           THEN /\ Raise("ValueError")
                /\ UNCHANGED n_draws
           ELSE /\ tasks' = Append(tasks,
                        [sample |-> NextDraw(rng), mask |-> None,
                         estimator |-> Clone(FitBaseEstimator,
                                             <<"task", idx, Len(tasks) + 1>>)])
                /\ gen' = Some(Advance(rng))
                /\ n_draws' = n_draws + 1
                /\ UNCHANGED <<pc, idx, result>>
    /\ UNCHANGED <<boot, cfg, data, attrs, written_by, n_est_fits, batches>>

\* lines 499-507: one fit_bootstrapped_sample call returns its mask
TaskComplete ==
    /\ pc = "loop"
    /\ \E t \in 1..Len(tasks) :
          /\ tasks[t].mask = None
          /\ ~EstimatorRaises(LocalX, tasks[t].sample, LambdaGrid[idx])
          /\ tasks' = [u \in 1..Len(tasks) |->
                          [tasks[u] EXCEPT
                              !.mask = IF u = t
                                       THEN Some(FitBootstrappedSample(
                                                LocalX, tasks[t].sample,
                                                LambdaGrid[idx], XWidth(cfg)))
                                       ELSE @,
                              !.estimator = IF @.id = tasks[t].estimator.id
                                            THEN SetParamsAndFit(@, LambdaGrid[idx])
                                            ELSE @]]
    /\ n_est_fits' = n_est_fits + 1
    /\ UNCHANGED <<boot, cfg, data, attrs, pc, idx, gen, written_by, n_draws,
                   batches, result>>

\* line 500: the estimator raises inside a worker; Parallel re-raises in fit
TaskFailSkips ==
    /\ pc = "loop"
    /\ \E t \in 1..Len(tasks) :
          /\ tasks[t].mask = None
          /\ EstimatorRaises(LocalX, tasks[t].sample, LambdaGrid[idx])
          /\ tasks' = [tasks EXCEPT ![t].mask = Some([j \in 1..XWidth(cfg) |-> FALSE])]
    /\ n_est_fits' = n_est_fits + 1
    /\ UNCHANGED <<boot, cfg, data, attrs, pc, idx, gen, written_by, n_draws,
                   batches, result>>

TaskFail ==
    /\ pc = "loop"
    /\ \E t \in 1..Len(tasks) :
          /\ tasks[t].mask = None
          /\ EstimatorRaises(LocalX, tasks[t].sample, LambdaGrid[idx])
    /\ Raise("EstimatorError")
    /\ n_est_fits' = n_est_fits + 1
    /\ UNCHANGED <<boot, cfg, data, attrs, written_by, n_draws, batches>>

\* lines 772-775: Parallel has returned the list of masks of this grid point
AggregateWithoutBarrier ==
    /\ pc = "loop"
    /\ Len(tasks) >= 1
    /\ \A t \in 1..Len(tasks) : tasks[t].mask # None
    /\ LET masks == [t \in 1..Len(tasks) |-> tasks[t].mask[1]]
       IN  /\ stability_scores_' =
                 Some(WithColumn(stability_scores_[1], idx, masks, 0, cfg.n_bootstraps))
           /\ IF cfg.artificial_type # ArtNone
              THEN stability_scores_artificial_' =
                      Some(WithColumn(stability_scores_artificial_[1], idx, masks,
                                      NFeatures, cfg.n_bootstraps))
              ELSE UNCHANGED stability_scores_artificial_
    /\ batches' = Append(batches, [t \in 1..Len(tasks) |-> tasks[t].sample])
    /\ tasks' = << >>
    /\ gen' = None
    /\ IF idx < NLambda
       THEN pc' = "loop" /\ idx' = idx + 1
       ELSE pc' = "fdr" /\ idx' = 0
    /\ UNCHANGED <<boot, cfg, data, X_artificial_, FDRs_, min_fdr_, fdr_min_threshold_,
                   n_features_in_, written_by, n_draws, n_est_fits, result>>

Aggregate ==
    /\ pc = "loop"
    /\ Len(tasks) = cfg.n_bootstraps
    /\ \A t \in 1..Len(tasks) : tasks[t].mask # None
    /\ LET masks == [t \in 1..Len(tasks) |-> tasks[t].mask[1]]
       IN  /\ stability_scores_' =
                 Some(WithColumn(stability_scores_[1], idx, masks, 0, cfg.n_bootstraps))
           /\ IF cfg.artificial_type # ArtNone
              THEN stability_scores_artificial_' =
                      Some(WithColumn(stability_scores_artificial_[1], idx, masks,
                                      NFeatures, cfg.n_bootstraps))
              ELSE UNCHANGED stability_scores_artificial_
    /\ batches' = Append(batches, [t \in 1..Len(tasks) |-> tasks[t].sample])
    /\ tasks' = << >>
    /\ gen' = None
    /\ IF idx < NLambda
       THEN pc' = "loop" /\ idx' = idx + 1
       ELSE pc' = "fdr" /\ idx' = 0
    /\ UNCHANGED <<boot, cfg, data, X_artificial_, FDRs_, min_fdr_, fdr_min_threshold_,
                   n_features_in_, written_by, n_draws, n_est_fits, result>>

\* lines 777-789: the FDR controller (lines 980-999) and return self
FitFinish ==
    /\ pc = "fdr"
    /\ IF cfg.artificial_type # ArtNone
       THEN LET fdps == FDPs(cfg.artificial_proportion, stability_scores_[1],
                             stability_scores_artificial_[1], cfg.fdr_threshold_range)
            IN  /\ FDRs_' = Some(fdps)
                /\ min_fdr_' = Some(fdps[ArgMin(fdps)])
                /\ fdr_min_threshold_' = Some(FinalCutoff(fdps, cfg.fdr_threshold_range))
                /\ written_by' = [written_by EXCEPT !["FDRs_"] = "fit",
                                                    !["min_fdr_"] = "fit",
                                                    !["fdr_min_threshold_"] = "fit"]
       ELSE UNCHANGED <<FDRs_, min_fdr_, fdr_min_threshold_, written_by>>
    /\ pc' = "idle"
    /\ result' = Outcome("fit", "ok", "", None, << >>)
    /\ UNCHANGED <<boot, cfg, data, stability_scores_, stability_scores_artificial_, X_artificial_,
                   n_features_in_, idx, gen, tasks, n_draws, n_est_fits, batches>>

-----------------------------------------------------------------------------
(* Calls between fits *)

\* get_support(new_threshold=nt), lines 815-816 and 900-911
GetSupportStoresOverride ==
    /\ pc = "idle"
    /\ \E nt \in Overrides :
          /\ result' = GetSupportOutcome(nt)
          /\ cfg' = IF nt = None THEN cfg ELSE [cfg EXCEPT !.threshold = nt]
    /\ UNCHANGED <<boot, data, attrs, locals, hist>>

GetSupport ==
    /\ pc = "idle"
    /\ \E nt \in Overrides : result' = GetSupportOutcome(nt)
    /\ UNCHANGED <<boot, cfg, data, attrs, locals, hist>>

\* get_feature_names_out(new_threshold=nt), lines 842-843
GetFeatureNamesOut ==
    /\ pc = "idle"
    /\ \E nt \in NamesOverrides : result' = FeatureNamesOutcome(nt)
    /\ UNCHANGED <<boot, cfg, data, attrs, locals, hist>>

\* transform(X, new_threshold=nt), lines 864-880
Transform ==
    /\ pc = "idle"
    /\ \E shape \in TransformInputs : \E nt \in TransformOverrides :
          result' = TransformOutcome(shape, nt)
    /\ UNCHANGED <<boot, cfg, data, attrs, locals, hist>>

Next ==
    \/ FitValidate
    \/ FitInit
    \/ FitMakeArtificial
    \/ TaskDispatch
    \/ TaskComplete
    \/ TaskFail
    \/ Aggregate
    \/ FitFinish
    \/ GetSupport
    \/ GetFeatureNamesOut
    \/ Transform

Spec == Init /\ [][Next]_vars

-----------------------------------------------------------------------------
(* The FDR controller and the accessor on their own: fit has left its grid *)
(* loop (line 777) with some pair of score matrices.                       *)

\* a score row whose largest entry is k / NBoot
ScoreRow(k) ==
    [i \in 1..NLambda |-> IF i = (k % NLambda) + 1 THEN <<k, NBoot>> ELSE <<0, NBoot>>]

\* The controller counts columns and the accessor treats every column alike,
\* so the rows are taken in one order: real columns by ascending maximum,
\* synthetic columns by descending maximum.
RealMatrices ==
    { [j \in 1..NFeatures |-> ScoreRow(ks[j])] :
        ks \in { f \in [1..NFeatures -> 0..NBoot] :
                    \A j \in 1..(NFeatures - 1) : f[j] <= f[j + 1] } }

ArtificialMatrices(n) ==
    { [j \in 1..n |-> ScoreRow(ks[j])] :
        ks \in { f \in [1..n -> 0..NBoot] : \A j \in 1..(n - 1) : f[j] >= f[j + 1] } }

FDRConfigs ==
    { BaseConfig,
      [BaseConfig EXCEPT !.fdr_threshold_range = << <<3, 4>>, <<1, 4>> >>,
                         !.random_state = Some(0)],
      [BaseConfig EXCEPT !.artificial_proportion = Half],
      [BaseConfig EXCEPT !.artificial_proportion = Half, !.threshold = Some(Half),
                         !.fdr_threshold_range = << <<5, 4>>, <<1, 2>> >>],
      [BaseConfig EXCEPT !.artificial_type = "knockoff",
                         !.fdr_threshold_range = << <<1, 4>>, <<1, 2>>, <<3, 4>> >>] }

InitFDR ==
    /\ cfg \in FDRConfigs
    /\ data \in {"signal"}
    /\ \E M \in RealMatrices : stability_scores_ = Some(M)
    /\ \E A \in ArtificialMatrices(NInjectedNoise(cfg)) : stability_scores_artificial_ = Some(A)
    /\ X_artificial_ = Some([kind |-> cfg.artificial_type,
                             data |-> data,
                             cols |-> NInjectedNoise(cfg),
                             rng  |-> DefaultRng(cfg.random_state, 0).src,
                             sample |-> 0])
    /\ FDRs_ = None
    /\ min_fdr_ = None
    /\ fdr_min_threshold_ = None
    /\ n_features_in_ = Some(NFeatures)
    /\ pc = "fdr"
    /\ idx = 0
    /\ gen = None
    /\ tasks = << >>
    /\ written_by = [a \in AttrNames |->
                        IF a \in {"FDRs_", "min_fdr_", "fdr_min_threshold_"}
                        THEN "init" ELSE "fit"]
    /\ n_draws = 1 + NLambda * NBoot
    /\ n_est_fits = NLambda * NBoot
    /\ batches = [i \in 1..NLambda |->
                    [t \in 1..NBoot |-> <<DefaultRng(cfg.random_state, i).src, t - 1>>]]
    /\ result = Outcome("fit", "running", "", None, << >>)
    /\ call = None
    /\ depth = 0
    /\ sampled_indices = << >>

\* plot_fdr_graph lines 195-200: the threshold the figure marks as optimal
PlotOptimalThreshold(min_fdr, fdrs, thresh_grid) ==
    IF RGt(min_fdr, Half)
    THEN One
    ELSE thresh_grid[ArgMin(fdrs)]

\* plot_fdr_graph(stabl), lines 186-203; without an FDR curve the comparison
\* of line 195 is made on None
PlotFdrGraph ==
    /\ pc = "idle"
    /\ result' =
          IF min_fdr_ = None
          THEN Outcome("plot_fdr_graph", "error", "TypeError", None, << >>)
          ELSE Outcome("plot_fdr_graph", "figure", "", None, << >>)
                 @@ [optimal_threshold |->
                        PlotOptimalThreshold(min_fdr_[1], FDRs_[1],
                                             cfg.fdr_threshold_range)]
    /\ UNCHANGED <<boot, cfg, data, attrs, locals, hist>>

NextFDR ==
    \/ FitFinish
    \/ GetSupport
    \/ GetFeatureNamesOut
    \/ Transform
    \/ PlotFdrGraph

SpecFDR == InitFDR /\ [][NextFDR]_vars

-----------------------------------------------------------------------------
(* The resampler on its own: one call bootstrap(y, n_subsamples, replace,  *)
(* rng) as _bootstraps_generator makes it (lines 92-97), followed through  *)
(* its recursive calls.                                                    *)

\* outcome vectors: one class only, one sample of the second class, two halves
Outcomes ==
    { [i \in 1..NSamples |-> 0],
      [i \in 1..NSamples |-> IF i = 1 THEN 1 ELSE 0],
      [i \in 1..NSamples |-> IF 2 * i <= NSamples THEN 1 ELSE 0] }

BootstrapCalls ==
    { [y |-> y, n_subsamples |-> n, replace |-> r] :
        y \in Outcomes, n \in {1, 2, NSamples - 1}, r \in BOOLEAN }
    \cup { [y |-> y, n_subsamples |-> NSamples + 1, replace |-> FALSE] : y \in Outcomes }

\* rng.choice(a=n_samples, size=n_subsamples, replace=replace): the arrays of
\* indices in 0..n_samples-1 it can return
Choices(n_samples, n_subsamples, replace) ==
    { c \in [1..n_subsamples -> 0..(n_samples - 1)] :
        replace \/ \A i \in 1..n_subsamples : \A k \in 1..n_subsamples :
                        i # k => c[i] # c[k] }

\* line 58: len(np.unique(y[sampled_indices])) < 2
FewerThanOne(y, indices) == Cardinality({y[indices[i] + 1] : i \in 1..Len(indices)}) < 1

FewerThanTwo(y, indices) == Cardinality({y[indices[i] + 1] : i \in 1..Len(indices)}) < 2

InitBootstrap ==
    /\ cfg = BaseConfig
    /\ data = "none"
    /\ stability_scores_ = None
    /\ stability_scores_artificial_ = None
    /\ X_artificial_ = None
    /\ FDRs_ = None
    /\ min_fdr_ = None
    /\ fdr_min_threshold_ = None
    /\ n_features_in_ = None
    /\ pc = "enter"
    /\ idx = 0
    /\ \E random_state \in {None, Some(0)} : gen = Some(DefaultRng(random_state, 1))
    /\ tasks = << >>
    /\ written_by = [a \in AttrNames |-> "init"]
    /\ n_draws = 0
    /\ n_est_fits = 0
    /\ batches = << >>
    /\ result = Outcome("bootstrap", "running", "", None, << >>)
    /\ \E c \in BootstrapCalls : call = Some(c)
    /\ depth = 0
    /\ sampled_indices = << >>

\* a call of bootstrap, the outermost or a recursive one (line 59): a call
\* beyond the interpreter's limit raises RecursionError; lines 44-49
BootstrapEnter ==
    /\ pc = "enter"
    /\ IF depth >= RecursionLimit
       THEN /\ pc' = "done"
            /\ depth' = 0
            /\ result' = Outcome("bootstrap", "error", "RecursionError", None, << >>)
       ELSE IF BootstrapRejects(call[1].n_subsamples, Len(call[1].y), call[1].replace)
       THEN /\ pc' = "done"
            /\ depth' = 0
            /\ result' = Outcome("bootstrap", "error", "ValueError", None, << >>)
       ELSE /\ pc' = "choice"
            /\ depth' = depth + 1
            /\ UNCHANGED result
    /\ UNCHANGED <<cfg, data, attrs, idx, gen, tasks, hist, call, sampled_indices>>

\* lines 51-55: sampled_indices = rng.choice(...)
BootstrapChoice ==
    /\ pc = "choice"
    /\ sampled_indices' \in Choices(Len(call[1].y), call[1].n_subsamples, call[1].replace)
    /\ gen' = Some(Advance(gen[1]))
    /\ n_draws' = n_draws + 1
    /\ pc' = "check"
    /\ UNCHANGED <<cfg, data, attrs, idx, tasks, written_by, n_est_fits, batches,
                   result, call, depth>>

\* lines 58-61: the draw is returned through every active call, or bootstrap
\* calls itself with the same rng
BootstrapCheck ==
    /\ pc = "check"
    /\ IF FewerThanTwo(call[1].y, sampled_indices)
       THEN /\ pc' = "enter"
            /\ UNCHANGED <<depth, result>>
       ELSE /\ pc' = "done"
            /\ depth' = 0
            /\ result' = Outcome("bootstrap", "indices", "", None, sampled_indices)
    /\ UNCHANGED <<cfg, data, attrs, idx, gen, tasks, hist, call, sampled_indices>>

NextBootstrap ==
    \/ BootstrapEnter
    \/ BootstrapChoice
    \/ BootstrapCheck

SpecBootstrap == InitBootstrap /\ [][NextBootstrap]_vars

-----------------------------------------------------------------------------
(* The synthetic block on its own: one call of _make_artificial_features    *)
(* (lines 913-956) made by fit at line 730, followed statement by statement *)
(* on a matrix X given by its columns.                                      *)

\* the matrices X: every column holds one marked row, in distinct rows or
\* all in the first row (equal columns)
ArtificialInputs ==
    { [j \in 1..NFeatures |-> [r \in 1..NSamples |-> IF r = j THEN j ELSE 0]],
      [j \in 1..NFeatures |-> [r \in 1..NSamples |-> IF r = 1 THEN 1 ELSE 0]] }

\* the configurations with which fit reaches line 730
ArtificialConfigs == {c \in Configs : ValidateInput(c) /\ c.artificial_type # ArtNone}

\* lines 939 and 947: rng.choice(a=X_artificial.shape[1], size=nb_noise,
\* replace=False)
ArtificialIndicesWithReplacement(n_cols, nb_noise) == Choices(n_cols, nb_noise, TRUE)

ArtificialIndices(n_cols, nb_noise) == Choices(n_cols, nb_noise, FALSE)

\* X[:, indices]: a new array holding the columns at the given positions
Columns(X, indices) == [k \in 1..Len(indices) |-> X[indices[k] + 1]]

\* rng.shuffle(column): the arrangements of its entries
Shuffles(column) ==
    { [r \in 1..Len(column) |-> column[p[r]]] : p \in Permutations(1..Len(column)) }

\* line 946: what the knockoff sampler returns for X under the global sample g
SampleKnockoffs(X, g) ==
    [j \in 1..Len(X) |-> [r \in 1..Len(X[j]) |-> X[j][r] + 10 * (g + 1)]]

InitArtificial ==
    /\ cfg \in ArtificialConfigs
    /\ data = "signal"
    /\ stability_scores_ = Some(Zeros(NFeatures))
    /\ stability_scores_artificial_ = Some(Zeros(NInjectedNoise(cfg)))
    /\ X_artificial_ = None
    /\ FDRs_ = None
    /\ min_fdr_ = None
    /\ fdr_min_threshold_ = None
    /\ n_features_in_ = Some(NFeatures)
    /\ pc = "artificial"
    /\ idx = 0
    /\ gen = None
    /\ tasks = << >>
    /\ written_by = [a \in AttrNames |->
                        IF a \in {"n_features_in_", "stability_scores_",
                                  "stability_scores_artificial_"}
                        THEN "fit" ELSE "init"]
    /\ n_draws = 0
    /\ n_est_fits = 0
    /\ batches = << >>
    /\ result = Outcome("fit", "running", "", None, << >>)
    /\ \E X \in ArtificialInputs :
          call = Some([X |-> X, nb_noise |-> NInjectedNoise(cfg),
                       artificial_type |-> cfg.artificial_type,
                       indices |-> None, X_artificial |-> None, i |-> 0,
                       returned |-> None])
    /\ depth = 0
    /\ sampled_indices = << >>

\* lines 935-940, 945-948 and 950-952: the block is cut out of a copy of X or
\* of the knockoff sample, or the type is refused
ArtificialSelect ==
    /\ pc = "artificial"
    /\ call[1].X_artificial = None
    /\ IF ~KnownArtificialType(call[1].artificial_type)
       THEN /\ Raise("ValueError")
            /\ UNCHANGED <<call, n_draws>>
       ELSE /\ \E g \in IF call[1].artificial_type = "knockoff" THEN GlobalSamples ELSE {0} :
               \E indices \in ArtificialIndices(Len(call[1].X), call[1].nb_noise) :
                  LET source == IF call[1].artificial_type = "knockoff"
                                THEN SampleKnockoffs(call[1].X, g)
                                ELSE call[1].X
                  IN  call' = Some([call[1] EXCEPT
                                      !.indices = Some(indices),
                                      !.X_artificial = Some(Columns(source, indices))])
            /\ n_draws' = n_draws + 1
            /\ UNCHANGED <<pc, idx, gen, tasks, result>>
    /\ UNCHANGED <<cfg, data, attrs, written_by, n_est_fits, batches, depth,
                   sampled_indices>>

\* lines 942-943: rng.shuffle(X_artificial[:, i]) for the next column
ArtificialShuffle ==
    /\ pc = "artificial"
    /\ call[1].artificial_type = "random_permutation"
    /\ call[1].X_artificial # None
    /\ call[1].i < Len(call[1].X_artificial[1])
    /\ \E shuffled \in Shuffles(call[1].X_artificial[1][call[1].i + 1]) :
          call' = Some([call[1] EXCEPT
                          !.X_artificial = Some([@[1] EXCEPT ![call[1].i + 1] = shuffled]),
                          !.i = @ + 1])
    /\ UNCHANGED <<cfg, data, attrs, locals, hist, result, depth, sampled_indices>>

\* lines 954-956 and the assignment of line 730: the block is stored and fit
\* goes on with the concatenation as its X
ArtificialReturn ==
    /\ pc = "artificial"
    /\ call[1].X_artificial # None
    /\ call[1].artificial_type = "random_permutation" =>
          call[1].i = Len(call[1].X_artificial[1])
    /\ X_artificial_' = Some([kind |-> call[1].artificial_type,
                              data |-> data,
                              cols |-> Len(call[1].X_artificial[1]),
                              rng  |-> DefaultRng(cfg.random_state, 0).src,
                              sample |-> 0,
                              values |-> call[1].X_artificial[1]])
    /\ written_by' = [written_by EXCEPT !["X_artificial_"] = "fit"]
    /\ call' = Some([call[1] EXCEPT !.returned = Some(call[1].X \o call[1].X_artificial[1])])
    /\ pc' = "loop"
    /\ idx' = 1
    /\ UNCHANGED <<cfg, data, stability_scores_, stability_scores_artificial_, FDRs_,
                   min_fdr_, fdr_min_threshold_, n_features_in_, gen, tasks, n_draws,
                   n_est_fits, batches, result, depth, sampled_indices>>

NextArtificial ==
    \/ ArtificialSelect
    \/ ArtificialShuffle
    \/ ArtificialReturn

SpecArtificial == InitArtificial /\ [][NextArtificial]_vars

-----------------------------------------------------------------------------
(* Vocabulary of the properties *)

\* fit has returned normally and nothing has been called since
FitReturned == pc = "idle" /\ result.op = "fit" /\ result.kind = "ok"

\* the latest fit call has run its whole grid loop and has returned
Fitted == pc = "idle" /\ Len(batches) = NLambda

\* the latest fit call ran the FDR controller and has returned
FDRControlled == pc = "idle" /\ written_by["fdr_min_threshold_"] = "fit"

\* a feature's maximum over the grid exceeds t exactly when some entry does
ExceedsSomewhere(row, t) == \E g \in 1..Len(row) : RGt(row[g], t)

NumberAbove(M, t) == Cardinality({j \in 1..Len(M) : ExceedsSomewhere(M[j], t)})

AtLeastOne(n) == IF n >= 1 THEN n ELSE 1

\* ((1 / artificial_proportion) * synthetic + 1) / max(1, real) as a fraction
SpecFDP(t) ==
    <<NumberAbove(stability_scores_artificial_[1], t) * cfg.artificial_proportion[2]
          + cfg.artificial_proportion[1],
      cfg.artificial_proportion[1] * AtLeastOne(NumberAbove(stability_scores_[1], t))>>

\* the stored curve has its smallest value at index i
MinimalAt(i) == \A k \in 1..Len(FDRs_[1]) : RLe(FDRs_[1][i], FDRs_[1][k])

Clipped(t) == IF RGt(t, One) THEN One ELSE t

\* get_support() has just returned a mask for the override nt
ReturnedMask(nt) == result.op = "get_support" /\ result.kind = "mask" /\ result.nt = nt

SelectsNothing == \A j \in 1..Len(result.mask) : ~result.mask[j]

-----------------------------------------------------------------------------
(* C1: after a fit with synthetic features the stored FDR curve has one    *)
(* entry per threshold of fdr_threshold_range, in grid order, and entry i  *)
(* is ((1/artificial_proportion) * #(synthetic max score > t_i) + 1) /     *)
(* max(1, #(real max score > t_i)), with strict comparisons.               *)
C1_FDRCurve ==
    FDRControlled =>
        /\ FDRs_ # None
        /\ Len(FDRs_[1]) = Len(cfg.fdr_threshold_range)
        /\ \A i \in 1..Len(cfg.fdr_threshold_range) :
              REq(FDRs_[1][i], SpecFDP(cfg.fdr_threshold_range[i]))

\* a curve with a score equal to a threshold, synthetic and real columns above it
C1_Witness ==
    /\ FDRControlled
    /\ \E i \in 1..Len(cfg.fdr_threshold_range) :
          LET t == cfg.fdr_threshold_range[i]
          IN  /\ NumberAbove(stability_scores_artificial_[1], t) >= 1
              /\ NumberAbove(stability_scores_[1], t) >= 2
              /\ \E j \in 1..NFeatures : \E g \in 1..NLambda :
                    REq(stability_scores_[1][j][g], t)

(* C2: if the minimum FDP over the threshold grid exceeds 0.5 then         *)
(* fdr_min_threshold_ is 1.0 and get_support() without override and        *)
(* without fixed threshold selects no feature.                             *)
C2_DegenerateAboveHalf ==
    (FDRControlled /\ \A i \in 1..Len(FDRs_[1]) : RGt(FDRs_[1][i], Half)) =>
        /\ REq(fdr_min_threshold_[1], One)
        /\ (ReturnedMask(None) /\ cfg.threshold = None => SelectsNothing)

C4_NotFittedBeforeFit ==
    (result.op = "get_support" /\ data = "none") =>
        result.kind = "error" /\ result.error = "NotFittedError"

(* C5: after a further fit on the same object none of stability_scores_,   *)
(* stability_scores_artificial_, X_artificial_, FDRs_, min_fdr_,           *)
(* fdr_min_threshold_ holds a value computed by an earlier fit.            *)
C5_RefitReplacesState ==
    FitReturned =>
        \A a \in {"stability_scores_", "stability_scores_artificial_", "X_artificial_",
                  "FDRs_", "min_fdr_", "fdr_min_threshold_"} :
            written_by[a] # "earlier fit"

(* C6: within one fit the batch of resamples used at one grid point is not *)
(* the batch used at another grid point, also with an integer seed.        *)
C6_FreshBatchPerGridPoint ==
    \A i \in 1..Len(batches) : \A k \in 1..Len(batches) :
        i # k => batches[i] # batches[k]

(* C7: get_support fails with an InvalidConfiguration (ValueError) error   *)
(* whenever the override threshold is outside (0, 1], in every fitted      *)
(* state.                                                                  *)
C7_OverrideValidated ==
    \A nt \in Overrides \ {None} :
        (Fitted /\ result.op = "get_support" /\ result.nt = nt
            /\ ~(RGt(nt[1], Zero) /\ RLe(nt[1], One))) =>
            result.kind = "error" /\ result.error = "ValueError"

(* C8 as stated: the selected threshold equals the threshold at which the  *)
(* FDP is minimal, clipped to at most 1.0.                                 *)
C8_ArgminClipped ==
    FDRControlled =>
        \E i \in 1..Len(FDRs_[1]) :
            /\ MinimalAt(i)
            /\ REq(fdr_min_threshold_[1], Clipped(cfg.fdr_threshold_range[i]))

(* C8 amended: when the minimal FDP is at most 1 the selected threshold    *)
(* equals the threshold of fdr_threshold_range at which the FDP is         *)
(* minimal, clipped to at most 1.0; when the minimal FDP exceeds 1 the     *)
(* selected threshold is 1.0.                                              *)
C8_SelectedThreshold ==
    FDRControlled =>
        IF \A i \in 1..Len(FDRs_[1]) : RGt(FDRs_[1][i], One)
        THEN REq(fdr_min_threshold_[1], One)
        ELSE \E i \in 1..Len(FDRs_[1]) :
                /\ MinimalAt(i)
                /\ REq(fdr_min_threshold_[1], Clipped(cfg.fdr_threshold_range[i]))

\* the minimum is attained at a threshold above 1.0 and the clip acts
C8_Witness ==
    /\ FDRControlled
    /\ \E i \in 1..Len(FDRs_[1]) :
          /\ MinimalAt(i)
          /\ \A k \in 1..Len(FDRs_[1]) : k # i => RGt(FDRs_[1][k], FDRs_[1][i])
          /\ RGt(cfg.fdr_threshold_range[i], One)
          /\ REq(fdr_min_threshold_[1], One)

(* C9: if every synthetic feature's max-over-grid score exceeds every real *)
(* feature's, the selected threshold is 1.0 and get_support() selects no   *)
(* feature.                                                                *)
C9_SyntheticDominates ==
    (/\ FDRControlled
     /\ stability_scores_artificial_[1] # << >>
     /\ \A a \in 1..Len(stability_scores_artificial_[1]) : \A j \in 1..NFeatures :
           \E g \in 1..NLambda : \A h \in 1..NLambda :
               RGt(stability_scores_artificial_[1][a][g], stability_scores_[1][j][h])) =>
        /\ REq(fdr_min_threshold_[1], One)
        /\ (ReturnedMask(None) /\ cfg.threshold = None => SelectsNothing)

(* C10: when fit raises a configuration error no fitted-state attribute    *)
(* has been written by that call and no estimator fit or random draw has   *)
(* happened in it.                                                         *)
C10_ConfigErrorBeforeWork ==
    (pc = "idle" /\ result.op = "fit" /\ result.kind = "error"
        /\ result.error = "ValueError") =>
        /\ \A a \in {"stability_scores_", "stability_scores_artificial_", "X_artificial_",
                     "FDRs_", "fdr_min_threshold_"} : written_by[a] # "fit"
        /\ n_draws = 0
        /\ n_est_fits = 0

\* the latest fit call passed validation, wrote the zero matrix and raised
\* before its grid loop ended
FitFailed == pc = "idle" /\ written_by["stability_scores_"] = "fit" /\ Len(batches) < NLambda

ReadAccessors == {"get_support", "get_feature_names_out", "transform"}

(* C11: after a fit that raised after validation every read accessor call *)
(* (get_support, get_feature_names_out, transform) fails with             *)
(* NotFittedError; none returns a mask computed from the zero or partly    *)
(* filled scores.                                                          *)
C11_FailedFitNotFitted ==
    (FitFailed /\ result.op \in ReadAccessors) =>
        result.kind = "error" /\ result.error = "NotFittedError"

\* a bootstrap call has ended, with a value or an exception
BootstrapEnded == pc = "done" /\ call # None

\* no index set of this call can hold two distinct outcome values
Unsatisfiable(c) ==
    /\ ~(c.n_subsamples > Len(c.y) /\ ~c.replace)
    /\ \/ c.n_subsamples = 1
       \/ \A i \in 1..Len(c.y) : c.y[i] = c.y[1]

(* C12: when no resample can satisfy the two-class constraint (a single   *)
(* distinct outcome value, or n_subsamples = 1) bootstrap ends, after a    *)
(* bounded number of redraws, by reporting the fatal DegenerateInput       *)
(* condition.                                                              *)
C12_DegenerateInputReported ==
    (BootstrapEnded /\ Unsatisfiable(call[1])) =>
        result.kind = "error" /\ result.error = "DegenerateInput"

\* the outcome values found at an index set
ValuesAt(y, indices) == {y[indices[i] + 1] : i \in 1..Len(indices)}

(* C13: every index set bootstrap returns has exactly n_subsamples         *)
(* indices, each in 0..n_samples-1, pairwise distinct when replace is      *)
(* false, and the outcomes at them hold at least two distinct values; a    *)
(* draw that violates the two-value constraint is not returned: bootstrap  *)
(* draws again, every draw coming from the one random source it was given. *)
C13_ReturnedIndexSet ==
    /\ (BootstrapEnded /\ result.kind = "indices") =>
          LET c == call[1]
              ind == result.mask
          IN  /\ Len(ind) = c.n_subsamples
              /\ \A i \in 1..Len(ind) : ind[i] \in 0..(Len(c.y) - 1)
              /\ ~c.replace => \A i \in 1..Len(ind) : \A k \in 1..Len(ind) :
                                    i # k => ind[i] # ind[k]
              /\ Cardinality(ValuesAt(c.y, ind)) >= 2
              /\ ind = sampled_indices
    /\ (call # None /\ pc = "enter" /\ depth > 0) =>
          Cardinality(ValuesAt(call[1].y, sampled_indices)) < 2
    /\ call # None => gen[1].pos = n_draws /\ gen[1].src \in {<<"os", 1>>, <<"seed", 0>>}

\* an index set returned without replacement after a rejected draw
C13_Witness ==
    /\ BootstrapEnded
    /\ result.kind = "indices"
    /\ n_draws >= 2
    /\ ~call[1].replace
    /\ call[1].n_subsamples >= 2

\* the configuration asks for more rows than there are, without replacement
Oversubscribed == NSubsamples(cfg) > NSamples /\ ~cfg.replace

\* random draws a fit makes outside the resampler: the synthetic block
DrawsBeforeLoop == IF cfg.artificial_type = ArtNone THEN 0 ELSE 1

(* C14: if n_subsamples exceeds the number of samples and replace is false *)
(* bootstrap raises ValueError before it draws anything, and in fit the    *)
(* error is raised before any resampling: no index set has been drawn, no  *)
(* resample has been fitted and no grid point has been aggregated.         *)
C14_OversubscribedRaisesFirst ==
    /\ (Oversubscribed /\ pc \in {"loop", "fdr"}) =>
          pc = "loop" /\ idx = 1 /\ tasks = << >> /\ gen = None
    /\ (Oversubscribed /\ pc = "idle" /\ result.op = "fit"
          /\ written_by["X_artificial_"] = "fit") =>
          /\ result.kind = "error"
          /\ result.error = "ValueError"
          /\ n_draws = DrawsBeforeLoop
          /\ n_est_fits = 0
          /\ batches = << >>

\* such a fit got as far as the first grid point and raised there
C14_Witness ==
    /\ Oversubscribed
    /\ pc = "idle"
    /\ result.op = "fit"
    /\ result.error = "ValueError"
    /\ written_by["X_artificial_"] = "fit"
    /\ ValidateInput(cfg)

\* the masks of the resample fits run at grid point i of the latest fit
MasksAt(i) ==
    [t \in 1..Len(batches[i]) |->
        FitBootstrappedSample(LocalX, batches[i][t], LambdaGrid[i], XWidth(cfg))]

\* how many of them selected column col
SelectedBy(i, col) == Cardinality({t \in 1..Len(batches[i]) : MasksAt(i)[t][col]})

(* C15: after a successful fit entry [j, idx] of stability_scores_ (and of *)
(* stability_scores_artificial_ with synthetic features) is k/n_bootstraps *)
(* where k counts, among the exactly n_bootstraps resample fits run at     *)
(* lambda_grid[idx], those whose mask selected that column; so every entry *)
(* lies in [0, 1] and column idx holds the frequencies of grid point idx.  *)
C15_ScoresAreFrequencies ==
    Fitted =>
        /\ n_est_fits = NLambda * cfg.n_bootstraps
        /\ \A i \in 1..NLambda :
              /\ Len(batches[i]) = cfg.n_bootstraps
              /\ \A j \in 1..NFeatures :
                    /\ stability_scores_[1][j][i] = <<SelectedBy(i, j), cfg.n_bootstraps>>
                    /\ RLe(Zero, stability_scores_[1][j][i])
                    /\ RLe(stability_scores_[1][j][i], One)
              /\ cfg.artificial_type # ArtNone =>
                    /\ Len(stability_scores_artificial_[1]) = NInjectedNoise(cfg)
                    /\ \A a \in 1..NInjectedNoise(cfg) :
                          /\ stability_scores_artificial_[1][a][i] =
                                <<SelectedBy(i, NFeatures + a), cfg.n_bootstraps>>
                          /\ RLe(stability_scores_artificial_[1][a][i], One)

\* a fit with synthetic features whose grid points gave one feature
\* different frequencies, one of them strictly between 0 and 1
C15_Witness ==
    /\ Fitted
    /\ FitReturned
    /\ cfg.artificial_type # ArtNone
    /\ \E j \in 1..NFeatures :
          /\ stability_scores_[1][j][1] # stability_scores_[1][j][NLambda]
          /\ \E i \in 1..NLambda :
                RGt(stability_scores_[1][j][i], Zero) /\ RGt(One, stability_scores_[1][j][i])
    /\ \E a \in 1..NInjectedNoise(cfg) : \E i \in 1..NLambda :
          RGt(stability_scores_artificial_[1][a][i], Zero)

\* the matrices fit's local X can be for the present X, y, configuration and
\* seed: what the seed does not fix is left to the global random state
PossibleMatrices ==
    { <<data, g>> : g \in IF cfg.artificial_type = "knockoff" THEN GlobalSamples ELSE {0} }

\* the resamples a generator seeded with the configured seed yields
SeededBatch == [t \in 1..cfg.n_bootstraps |-> <<<<"seed", cfg.random_state[1]>>, t - 1>>]

\* the stability scores of a fit that saw the matrix m
SeededScores(m) ==
    [j \in 1..NFeatures |->
        [i \in 1..NLambda |->
            <<Cardinality({t \in 1..cfg.n_bootstraps :
                  FitBootstrappedSample(m, SeededBatch[t], LambdaGrid[i], XWidth(cfg))[j]}),
              cfg.n_bootstraps>>]]

(* C16: two fits with identical X, y, configuration and seed produce the  *)
(* same stability_scores_, whatever the worker count and the order in      *)
(* which workers complete: the scores of a seeded fit are the scores of    *)
(* every fit these inputs and this seed allow.                             *)
C16_SeededFitsAgree ==
    (Fitted /\ cfg.random_state # None) =>
        \A m \in PossibleMatrices : stability_scores_[1] = SeededScores(m)

\* every feature selected by mask m2 is selected by mask m1
Covers(m1, m2) == Len(m1) = Len(m2) /\ \A j \in 1..Len(m2) : m2[j] => m1[j]

NumberSelected(m) == Cardinality({j \in 1..Len(m) : m[j]})

(* C17: in a fitted state, for override thresholds t1 <= t2 the mask of    *)
(* get_support(new_threshold=t1) is a superset of the mask for t2, so the  *)
(* number of selected features does not decrease as the override           *)
(* decreases.                                                              *)
C17_MonotoneMasks ==
    (Fitted /\ result.op = "get_support" /\ result.nt # None) =>
        /\ result.kind = "mask"
        /\ \A t \in Overrides \ {None} :
              LET other == GetSupportOutcome(t)
              IN  /\ other.kind = "mask"
                  /\ RLe(result.nt[1], t[1]) =>
                        /\ Covers(result.mask, other.mask)
                        /\ NumberSelected(result.mask) >= NumberSelected(other.mask)
                  /\ RLe(t[1], result.nt[1]) =>
                        /\ Covers(other.mask, result.mask)
                        /\ NumberSelected(other.mask) >= NumberSelected(result.mask)

\* a mask returned for the override 1/4 that is strictly larger than a
\* non-empty mask for the override 3/4
C17_Witness ==
    /\ Fitted
    /\ ReturnedMask(Some(<<1, 4>>))
    /\ LET other == GetSupportOutcome(Some(<<3, 4>>))
       IN  /\ NumberSelected(other.mask) >= 1
           /\ NumberSelected(result.mask) > NumberSelected(other.mask)

(* C18: when a fixed threshold is configured fit does not run the FDR     *)
(* controller and writes no FDR curve, minimum or selected threshold,      *)
(* also when synthetic features are enabled.                               *)
C18_FixedThresholdBypassesFDR ==
    (FitReturned /\ cfg.threshold # None) =>
        \A a \in {"FDRs_", "min_fdr_", "fdr_min_threshold_"} : written_by[a] # "fit"

\* the attributes that belong to synthetic features and FDR control
SyntheticAttributes == {"stability_scores_artificial_", "X_artificial_",
                        "FDRs_", "min_fdr_", "fdr_min_threshold_"}

(* C19: with a fixed threshold and artificial_type=None fit runs to its   *)
(* end without generating a synthetic block, an artificial score matrix or *)
(* an FDR curve, and get_support() without override compares the           *)
(* max-over-grid scores with the fixed threshold; with artificial_type=None *)
(* and threshold=None fit is rejected with a configuration error.          *)
C19_FixedThresholdOnly ==
    /\ (cfg.threshold # None /\ cfg.artificial_type = ArtNone /\ ValidateInput(cfg)) =>
          /\ pc # "artificial"
          /\ \A a \in SyntheticAttributes : written_by[a] # "fit"
          /\ n_draws <= NLambda * cfg.n_bootstraps
          /\ (FitReturned => Fitted /\ n_draws = NLambda * cfg.n_bootstraps)
          /\ (Fitted /\ result.op = "get_support" /\ result.nt = None) =>
                /\ result.kind = "mask"
                /\ Len(result.mask) = NFeatures
                /\ \A j \in 1..NFeatures :
                      result.mask[j] <=>
                          ExceedsSomewhere(stability_scores_[1][j], cfg.threshold[1])
    /\ (cfg.threshold = None /\ cfg.artificial_type = ArtNone) =>
          /\ pc = "idle"
          /\ \A a \in AttrNames : written_by[a] # "fit"
          /\ result.op = "fit" => result.kind = "error" /\ result.error = "ValueError"

\* such a fit has returned and get_support() has split the features
C19_Witness ==
    /\ cfg.threshold # None
    /\ cfg.artificial_type = ArtNone
    /\ Fitted
    /\ ReturnedMask(None)
    /\ stability_scores_artificial_ = None
    /\ FDRs_ = None
    /\ \E j \in 1..NFeatures : result.mask[j]
    /\ \E j \in 1..NFeatures : ~result.mask[j]

(* C20: transform on a fitted object whose mask selects no column does    *)
(* not raise: it warns and returns a matrix with the rows of its input and *)
(* zero columns.                                                           *)
C20_EmptySelectionReturned ==
    (Fitted /\ result.op = "transform" /\ result.x[2] = NFeatures) =>
        LET got == GetSupportOutcome(result.nt)
        IN  (got.kind = "mask" /\ NumberSelected(got.mask) = 0) =>
                /\ result.kind = "matrix"
                /\ result.warning
                /\ result.rows = result.x[1]
                /\ result.cols = 0

\* the FDR controller's own threshold selects nothing and transform is
\* called, without override, on a matrix of several rows
C20_Witness ==
    /\ Fitted
    /\ result.op = "transform"
    /\ result.nt = None
    /\ result.kind = "matrix"
    /\ result.cols = 0
    /\ result.warning
    /\ result.rows = NSamples
    /\ \E j \in 1..NFeatures : ExceedsSomewhere(stability_scores_[1][j], Zero)

(* C21: transform applied to a matrix whose number of columns differs     *)
(* from the number of features seen at fit time fails with a ValueError    *)
(* (ShapeMismatch) and returns no reduced matrix.                          *)
C21_WidthMismatchRejected ==
    (result.op = "transform" /\ n_features_in_ # None
        /\ result.x[2] # n_features_in_[1]) =>
        /\ result.kind = "error"
        /\ result.error = "ValueError"
        /\ "columns" \notin DOMAIN result

\* a fitted object that would select features was given one column too many
C21_Witness ==
    /\ Fitted
    /\ result.op = "transform"
    /\ result.nt = None
    /\ result.x[2] = NFeatures + 1
    /\ result.kind = "error"
    /\ GetSupportOutcome(None).kind = "mask"
    /\ NumberSelected(GetSupportOutcome(None).mask) >= 1

\* the name sklearn generates for the column at position c
NameOfColumn(c) == <<"x", c>>

(* C22: for a fitted object, any override threshold and any input with    *)
(* the fit-time columns, the columns returned by transform(X, t) are       *)
(* exactly the columns named by get_feature_names_out(new_threshold=t),    *)
(* in the same order.                                                      *)
C22_TransformMatchesNames ==
    /\ (Fitted /\ result.op = "transform" /\ result.x[2] = NFeatures) =>
          LET named == FeatureNamesOutcome(result.nt)
          IN  /\ result.kind = "matrix" <=> named.kind = "names"
              /\ result.kind = "matrix" =>
                    /\ Len(result.columns) = Len(named.names)
                    /\ \A k \in 1..Len(named.names) :
                          NameOfColumn(result.columns[k]) = named.names[k]
    /\ (Fitted /\ result.op = "get_feature_names_out" /\ result.kind = "names") =>
          \A x \in TransformInputs : x[2] = NFeatures =>
              LET reduced == TransformOutcome(x, result.nt)
              IN  /\ reduced.kind = "matrix"
                  /\ Len(reduced.columns) = Len(result.names)
                  /\ \A k \in 1..Len(result.names) :
                        NameOfColumn(reduced.columns[k]) = result.names[k]

\* a proper subset of the columns, not a prefix, was returned by transform
C22_Witness ==
    /\ Fitted
    /\ result.op = "transform"
    /\ result.kind = "matrix"
    /\ result.x[2] = NFeatures
    /\ Len(result.columns) \in 1..(NFeatures - 1)
    /\ result.columns[1] # 0
    /\ FeatureNamesOutcome(result.nt).names[1] = NameOfColumn(result.columns[1])

\* the estimator raises on resample t of the aggregated grid point i
RaisesAt(i, t) == EstimatorRaises(LocalX, batches[i][t], LambdaGrid[i])

WorkerFailed == result.op = "fit" /\ result.kind = "error" /\ result.error = "EstimatorError"

(* C23: a failure of any single per-resample worker aborts the whole fit  *)
(* with that error: the failed resample is never skipped, and no score     *)
(* column is computed from fewer than n_bootstraps masks.                  *)
C23_WorkerFailureAborts ==
    /\ \A i \in 1..Len(batches) :
          /\ Len(batches[i]) = cfg.n_bootstraps
          /\ \A t \in 1..Len(batches[i]) : ~RaisesAt(i, t)
    /\ WorkerFailed =>
          /\ pc = "idle"
          /\ ~Fitted
          /\ \A j \in 1..NFeatures : stability_scores_[1][j][Len(batches) + 1] = Zero
          /\ written_by["FDRs_"] # "fit"

\* the first grid point was aggregated, a worker of a later one failed
C23_Witness ==
    /\ WorkerFailed
    /\ Len(batches) >= 1
    /\ n_est_fits > cfg.n_bootstraps
    /\ \E j \in 1..NFeatures : stability_scores_[1][j][1] # Zero

\* a step that is a call of get_support, get_feature_names_out or transform
ReadStep == pc = "idle" /\ result' # result /\ result'.op \in ReadAccessors

(* C24: get_support, get_feature_names_out and transform leave the whole   *)
(* fitted state unchanged: stability_scores_, stability_scores_artificial_,*)
(* FDRs_, min_fdr_, fdr_min_threshold_, X_artificial_ and the configured   *)
(* threshold (with the rest of the configuration), for any override and    *)
(* any sequence of such calls after a fit.                                 *)
C24_AccessorsReadOnly ==
    [][ReadStep => UNCHANGED <<attrs, cfg, data, locals, hist>>]_vars

\* an accessor was called with an override different from the configured
\* threshold on a fully fitted object
C24_Witness ==
    /\ Fitted
    /\ FDRControlled
    /\ result.op \in ReadAccessors
    /\ result.kind \in {"mask", "matrix"}
    /\ result.nt # None
    /\ cfg.threshold # result.nt

\* the tasks of the current grid point that have returned their mask
Returned == {t \in 1..Len(tasks) : tasks[t].mask # None}

\* column i of stability_scores_ still holds the zeros of line 724
Unwritten(i) == \A j \in 1..NFeatures : stability_scores_[1][j][i] = Zero

(* C25: the score column of a grid point is written only after all         *)
(* n_bootstraps tasks of that grid point have returned; no task of grid     *)
(* point i+1 starts before column i is written; the grid points are         *)
(* processed once each, in lambda_grid order, and the loop ends when the    *)
(* grid is exhausted.                                                       *)
C25_GridBarrier ==
    /\ pc = "loop" =>
          /\ idx \in 1..NLambda
          /\ Len(batches) = idx - 1
          /\ \A i \in idx..NLambda : Unwritten(i)
          /\ Len(tasks) <= cfg.n_bootstraps
          /\ n_est_fits = (idx - 1) * cfg.n_bootstraps + Cardinality(Returned)
    /\ pc # "loop" => tasks = << >>
    /\ \A i \in 1..Len(batches) : Len(batches[i]) = cfg.n_bootstraps
    /\ pc = "fdr" => Len(batches) = NLambda /\ n_est_fits = NLambda * cfg.n_bootstraps

\* the second grid point is running with one task outstanding, the first
\* column is in place
C25_Witness ==
    /\ pc = "loop"
    /\ idx = 2
    /\ Len(tasks) = cfg.n_bootstraps
    /\ Cardinality(Returned) = cfg.n_bootstraps - 1
    /\ ~Unwritten(1)
    /\ Unwritten(2)

\* the estimator objects that fit must not hand to a task
OwnedByCaller == {SelfBaseEstimator.id, FitBaseEstimator.id}

\* every dispatched task holds an estimator object of its own, touched by
\* that task alone, and a returned mask covers the real and synthetic columns
TasksIsolated ==
    \A t \in 1..Len(tasks) :
        /\ tasks[t].estimator.id \notin OwnedByCaller
        /\ \A u \in 1..Len(tasks) :
              u # t => tasks[u].estimator.id # tasks[t].estimator.id
        /\ IF tasks[t].mask = None
           THEN tasks[t].estimator = [tasks[t].estimator EXCEPT !.lambda = None,
                                                                !.fitted = FALSE]
           ELSE /\ tasks[t].estimator =
                      SetParamsAndFit(tasks[t].estimator, LambdaGrid[idx])
                /\ Len(tasks[t].mask[1]) =
                      NFeatures + (IF cfg.artificial_type = ArtNone THEN 0
                                   ELSE X_artificial_[1].cols)

\* a step in which one fit_bootstrapped_sample call returns
TaskReturns == pc = "loop" /\ pc' = "loop" /\ n_est_fits' = n_est_fits + 1

(* C26: every per-resample task receives its own freshly cloned estimator  *)
(* and its own data slice: no estimator object is shared by two tasks, the *)
(* configured self.base_estimator is never fitted nor has its              *)
(* regularization parameter changed by fit, and a task's only effect is    *)
(* its returned mask of length n_features + n_synthetic (the design matrix *)
(* and the outcome are not changed).                                       *)
C26_TasksIsolated ==
    [][/\ TasksIsolated'
       /\ TaskReturns =>
             /\ UNCHANGED <<cfg, data, attrs, idx, gen, hist[1], hist[2], hist[4], result>>
             /\ Len(tasks') = Len(tasks)
             /\ \E t \in 1..Len(tasks) :
                   /\ tasks[t].mask = None /\ tasks'[t].mask # None
                   /\ \A u \in 1..Len(tasks) : u # t => tasks'[u] = tasks[u]]_vars

\* two tasks of the second grid point hold different fitted clones
C26_Witness ==
    /\ pc = "loop"
    /\ idx = 2
    /\ Len(tasks) >= 2
    /\ tasks[1].mask # None
    /\ tasks[2].mask # None
    /\ tasks[1].estimator.fitted
    /\ tasks[1].estimator.lambda = Some(LambdaGrid[2])
    /\ tasks[1].estimator.id # tasks[2].estimator.id

\* how often the value v occurs in the array a
Occurrences(a, v) == Cardinality({r \in 1..Len(a) : a[r] = v})

\* a is a rearrangement of b
PermutationOf(a, b) ==
    /\ Len(a) = Len(b)
    /\ \A r \in 1..Len(b) : Occurrences(a, b[r]) = Occurrences(b, b[r])

(* C27: with artificial_type "random_permutation" the synthetic block has  *)
(* the row count of X and exactly int(n_features * artificial_proportion)  *)
(* columns; each synthetic column is a permutation of a real column and no *)
(* real column is used for two synthetic columns; the caller's X is not    *)
(* modified; the block is generated once per fit, before the first grid    *)
(* point, and appended to the right of X, so that positions 0..n_features-1*)
(* of a mask belong to the rows of stability_scores_ and the remaining     *)
(* ones to the rows of stability_scores_artificial_.                       *)
C27_PermutationBlock ==
    (call # None /\ call[1].artificial_type = "random_permutation") =>
        LET f == call[1]
            n_synthetic == (NFeatures * cfg.artificial_proportion[1])
                               \div cfg.artificial_proportion[2]
        IN  /\ f.X \in ArtificialInputs
            /\ Len(f.X) = NFeatures
            /\ f.X_artificial # None =>
                  /\ Len(f.X_artificial[1]) = n_synthetic
                  /\ \A k \in 1..n_synthetic :
                        /\ Len(f.X_artificial[1][k]) = NSamples
                        /\ f.indices[1][k] \in 0..(NFeatures - 1)
                        /\ PermutationOf(f.X_artificial[1][k], f.X[f.indices[1][k] + 1])
                        /\ \A m \in 1..n_synthetic :
                              m # k => f.indices[1][m] # f.indices[1][k]
            /\ pc = "artificial" =>
                  /\ X_artificial_ = None
                  /\ f.returned = None
            /\ pc = "loop" =>
                  /\ idx = 1 /\ batches = << >> /\ tasks = << >> /\ n_est_fits = 0
                  /\ n_draws = 1
                  /\ X_artificial_[1].values = f.X_artificial[1]
                  /\ Len(f.returned[1]) = NFeatures + n_synthetic
                  /\ \A j \in 1..NFeatures : f.returned[1][j] = f.X[j]
                  /\ \A k \in 1..n_synthetic :
                        f.returned[1][NFeatures + k] = f.X_artificial[1][k]
                  /\ Len(stability_scores_[1]) = NFeatures
                  /\ Len(stability_scores_artificial_[1]) = n_synthetic

\* a full-width block was returned whose columns are taken in another order
\* than X's and whose first column was really rearranged
C27_Witness ==
    /\ call # None
    /\ call[1].artificial_type = "random_permutation"
    /\ pc = "loop"
    /\ call[1].nb_noise = NFeatures
    /\ call[1].indices[1][1] # 0
    /\ call[1].X_artificial[1][1] # call[1].X[call[1].indices[1][1] + 1]
    /\ call[1].returned[1][NFeatures + 1] = call[1].X_artificial[1][1]

\* fit was called with a type that _make_artificial_features has no branch for
UnknownTypeFit ==
    /\ pc = "idle"
    /\ result.op = "fit"
    /\ ValidateInput(cfg)
    /\ cfg.artificial_type \notin {"random_permutation", "knockoff", ArtNone}

(* C28: _make_artificial_features fails with ValueError, and stores no     *)
(* synthetic block, whenever artificial_type is neither                    *)
(* "random_permutation" nor "knockoff".                                    *)
C28_UnknownTypeRejected ==
    /\ UnknownTypeFit =>
          /\ result.kind = "error"
          /\ result.error = "ValueError"
          /\ written_by["X_artificial_"] # "fit"
          /\ n_draws = 0
          /\ n_est_fits = 0
          /\ batches = << >>
    /\ (pc \in {"loop", "fdr"} /\ cfg.artificial_type # ArtNone) =>
          cfg.artificial_type \in {"random_permutation", "knockoff"}

\* the refused call was made by a refit: the block of the earlier fit is kept
C28_Witness ==
    /\ UnknownTypeFit
    /\ result.error = "ValueError"
    /\ written_by["X_artificial_"] = "earlier fit"
    /\ X_artificial_ # None
    /\ written_by["stability_scores_artificial_"] = "fit"

\* the diagnostic figure has been drawn for an object with an FDR curve
Plotted == FDRControlled /\ result.op = "plot_fdr_graph" /\ result.kind = "figure"

(* C29: the optimal threshold reported by plot_fdr_graph for a fitted      *)
(* state equals the threshold get_support() applies (fdr_min_threshold_)   *)
(* for every FDR curve: same degenerate-case rule and same clipping, in    *)
(* particular when the minimum FDP lies in (0.5, 1].                       *)
C29_PlotMatchesSelection ==
    Plotted => REq(result.optimal_threshold, fdr_min_threshold_[1])

\* i is the smallest index at which the stored curve is minimal
FirstMinimalAt(i) == MinimalAt(i) /\ \A k \in 1..(i - 1) : ~MinimalAt(k)

====
